---- MODULE Spec2Model ----
(***************************************************************************)
(* Model of platform/server/shared/repository/github.go (GitHubApi):       *)
(* ParseUrl, GetFile, PushFilesToRepository, GetRepositoryArchive and      *)
(* DeleteDirs, each talking to a remote client whose calls may fail.       *)
(* Strings are sequences of one-character strings.                         *)
(***************************************************************************)
EXTENDS Integers, Sequences, FiniteSets, TLC

VARIABLES
    url,        \* ParseUrl: the argument
    parsed,     \* ParseUrl: <<>> before the call, then <<the returned (filePid, owner, repoName, err)>>
    ref,        \* remote: the commit SHA refs/heads/<branch> points at
    commits,    \* remote: the commit objects; a commit's SHA is its index
    trees,      \* remote: the tree objects; a tree's SHA is its index
    files,      \* PushFilesToRepository: each caller's files argument (path -> content)
    pc,         \* PushFilesToRepository: each caller's next remote call, or "done"
    loc,        \* PushFilesToRepository: each caller's locals ref, baseTree, newTree, newCommit
    err,        \* PushFilesToRepository: each caller's returned error
    calls,      \* remote: per caller, the calls received, with argument and answer
    folderPaths,\* DeleteDirs: the folderPaths argument
    present,    \* remote: the paths of the files on branch main
    di,         \* DeleteDirs: the position of the range loop in folderPaths
    delPc,      \* DeleteDirs: "loop" or "done"
    delErr,     \* DeleteDirs: the returned error
    delCalls,   \* remote: the DeleteFile calls received, with their answers
    ioOp,       \* "GetFile" or "GetRepositoryArchive" (or "none")
    ioArg,      \* GetFile: filePath
    remote,     \* remote: the bytes served and the status of the archive link's answer
    ioPc,       \* the operation's next call, or "done"
    body,       \* the response body obtained: state none/open/closed and number of reads
    resp,       \* GetRepositoryArchive: <<>> or <<the response of http.Get>>
    ioCalls,    \* the calls made, with their errors
    ioRet       \* <<>> or <<the returned (value, err)>>

parseVars == <<url, parsed>>
pushVars  == <<ref, commits, trees, files, pc, loc, err, calls>>
delVars   == <<folderPaths, present, di, delPc, delErr, delCalls>>
ioVars    == <<ioOp, ioArg, remote, ioPc, body, resp, ioCalls, ioRet>>
vars == <<parseVars, pushVars, delVars, ioVars>>

----------------------------------------------------------------------------
(* Bounds *)

\* the most '/'-separated segments of the text that follows the URL's prefix
MaxSegs == 6

\* the number of distinct file paths: the most files of one push and the
\* most entries of the branch's tree
MaxFiles == 2

\* the most folders passed to one DeleteDirs call
MaxFolders == 3

\* the most bytes of a file or an archive
MaxBytes == 2

----------------------------------------------------------------------------
(* strings helpers: what strings.HasPrefix, strings.LastIndex and slicing do *)

NoStr == <<>>

\* (a variant that compares the lengths only)
HasPrefixLenOnly(s, prefix) == Len(s) >= Len(prefix)

\* strings.HasPrefix(s, prefix)
HasPrefix(s, prefix) ==
    /\ Len(s) >= Len(prefix)
    /\ SubSeq(s, 1, Len(prefix)) = prefix

\* strings.LastIndex(s, c) for a one-character c: 0-based index, -1 when absent
LastIndex(s, c) ==
    IF \E i \in 1..Len(s) : s[i] = c
    THEN (CHOOSE i \in 1..Len(s) :
              /\ s[i] = c
              /\ \A j \in (i+1)..Len(s) : s[j] # c) - 1
    ELSE -1

\* s[from:] with a 0-based from
SliceFrom(s, from) == SubSeq(s, from + 1, Len(s))

\* s[:to] with a 0-based exclusive to
SliceTo(s, to) == SubSeq(s, 1, to)

----------------------------------------------------------------------------
(* ParseUrl *)

githubURLPrefix ==
    <<"h","t","t","p","s",":","/","/","g","i","t","h","u","b",".","c","o","m","/">>

BlobLit == <<"/","b","l","o","b","/">>

\* an error value: its fixed text and the string appended to it
ErrNil == [msg |-> "nil", arg |-> NoStr]
ErrInvalidURLFormat ==
    [msg |-> "IDL path format is incorrect; it does not have the expected prefix: ",
     arg |-> githubURLPrefix]
ErrURLParseFailure ==
    [msg |-> "IDL path format is incorrect; unable to parse the GitHub URL",
     arg |-> NoStr]

\* [^\/]+ taken greedily from position i (1-based): the position after the
\* longest run of characters other than '/'.  A shorter run cannot match,
\* since the regexp continues with a literal '/'.
NotSlashRunEnd(s, i) ==
    CHOOSE j \in i..(Len(s) + 1) :
        /\ \A k \in i..(j-1) : s[k] # "/"
        /\ (j = Len(s) + 1 \/ s[j] = "/")

\* .+ taken greedily from position i: '.' matches any character but "\n"
DotRunEnd(s, i) ==
    CHOOSE j \in i..(Len(s) + 1) :
        /\ \A k \in i..(j-1) : s[k] # "\n"
        /\ (j = Len(s) + 1 \/ s[j] = "\n")

\* the match of regGitHubURL that starts exactly at position i, as
\* <<whole, owner, repo, ref, path>>, or <<>> when there is none
MatchAt(s, i) ==
    LET e1 == NotSlashRunEnd(s, i)
        e2 == NotSlashRunEnd(s, e1 + 1)
        r  == e2 + Len(BlobLit)
        e3 == NotSlashRunEnd(s, r)
        q  == e3 + 1
        e4 == DotRunEnd(s, q)
    IN  IF /\ e1 > i
           /\ e1 <= Len(s)
           /\ e2 > e1 + 1
           /\ e2 + Len(BlobLit) - 1 <= Len(s)
           /\ SubSeq(s, e2, e2 + Len(BlobLit) - 1) = BlobLit
           /\ e3 > r
           /\ e3 <= Len(s)
           /\ e4 > q
        THEN << SubSeq(s, i, e4 - 1),
                SubSeq(s, i, e1 - 1),
                SubSeq(s, e1 + 1, e2 - 1),
                SubSeq(s, r, e3 - 1),
                SubSeq(s, q, e4 - 1) >>
        ELSE <<>>

\* regexp.FindStringSubmatch: the leftmost match, found anywhere in s
\* (the expression carries no ^ or $ anchor); nil (<<>>) when none
FindStringSubmatch(s) ==
    IF \E i \in 1..Len(s) : MatchAt(s, i) # <<>>
    THEN MatchAt(s, CHOOSE i \in 1..Len(s) :
                        /\ MatchAt(s, i) # <<>>
                        /\ \A j \in 1..(i-1) : MatchAt(s, j) = <<>>)
    ELSE <<>>

\* (a variant that keeps the query string)
TempPathKeepQuery(u) == SliceFrom(u, Len(githubURLPrefix))

\* the text matched against the expression: prefix removed, cut at the last '?'
TempPath(u) ==
    LET tempPath == SliceFrom(u, Len(githubURLPrefix))
        lastQuestionMarkIndex == LastIndex(tempPath, "?")
    IN  IF lastQuestionMarkIndex # -1
        THEN SliceTo(tempPath, lastQuestionMarkIndex)
        ELSE tempPath

ParseFail(e) == [filePid |-> NoStr, owner |-> NoStr, repoName |-> NoStr, err |-> e]

ParseUrl(u) ==
    IF HasPrefix(u, githubURLPrefix)
    THEN LET matches == FindStringSubmatch(TempPath(u))
         IN  IF Len(matches) # 5
             THEN ParseFail(ErrURLParseFailure)
             ELSE [filePid  |-> matches[5],
                   owner    |-> matches[2],
                   repoName |-> matches[3],
                   err      |-> ErrNil]
    ELSE ParseFail(ErrInvalidURLFormat)

----------------------------------------------------------------------------
(* inputs of ParseUrl: a prefix followed by '/'-separated segments *)

SegChoices ==
    { <<>>, <<"a">>, <<"b","l","o","b">>, <<"a","?","b">>, <<"a","\n","b">> }

PrefixChoices ==
    { githubURLPrefix,
      <<"h","t","t","p",":","/","/","g","i","t","h","u","b",".","c","o","m","/">>,
      <<"g","i","t","h","u","b",".","c","o","m","/">> }

RECURSIVE JoinSegs(_)
JoinSegs(ss) ==
    IF Len(ss) = 0 THEN <<>>
    ELSE IF Len(ss) = 1 THEN ss[1]
    ELSE ss[1] \o <<"/">> \o JoinSegs(Tail(ss))

\* the lists of 1 to n segments, and the inputs built from them
SegLists(n) == UNION { [1..k -> SegChoices] : k \in 1..n }

Urls(n) == { p \o JoinSegs(ss) : p \in PrefixChoices, ss \in SegLists(n) }

----------------------------------------------------------------------------
(* the remote repository, as PushFilesToRepository uses it *)

Writers == {"A", "B"}
Paths   == 1..MaxFiles

\* the answers of a remote call: nil, or an error of the client
RemoteErrs == {"404 Not Found", "502 Bad Gateway"}
Outcomes   == {"nil"} \cup RemoteErrs
NotFastForward == "422 Update is not a fast forward"

FileMode == "100644"

\* the elements of a set of paths, ascending
RECURSIVE Ascending(_)
Ascending(S) ==
    IF S = {} THEN <<>>
    ELSE LET m == CHOOSE x \in S : \A y \in S : x <= y
         IN  <<m>> \o Ascending(S \ {m})

IterationOrders(S) ==
    { f \in [1..Cardinality(S) -> S] : \A i, j \in DOMAIN f : f[i] = f[j] => i = j }

InitialCommit == 1
InitialTree(S) ==
    [base |-> 0, sent |-> <<>>,
     entries |-> [i \in 1..Cardinality(S) |->
                     [path |-> Ascending(S)[i], content |-> "old", mode |-> FileMode]]]

\* Git.GetTree(sha) with a commit's SHA, non-recursive: the entries of its tree
RemoteGetTree(sha) == trees[commits[sha].tree].entries

\* the tree the remote stores for the entries sent to Git.CreateTree: one entry
\* per path; of two entries sent with one path the remote keeps the first
\* (firstWins) or the last
RemoteResolve(sent, firstWins) ==
    LET ps == { sent[i].path : i \in DOMAIN sent }
        pick(p) == LET is == { i \in DOMAIN sent : sent[i].path = p }
                   IN  IF firstWins
                       THEN CHOOSE i \in is : \A j \in is : i <= j
                       ELSE CHOOSE i \in is : \A j \in is : i >= j
    IN  [k \in 1..Cardinality(ps) |-> sent[pick(Ascending(ps)[k])]]

RECURSIVE Ancestors(_)
\* the commits reachable from commit sha by parent links, sha included
Ancestors(sha) ==
    {sha} \cup UNION { Ancestors(commits[sha].parents[i]) :
                          i \in DOMAIN commits[sha].parents }

\* (a variant without the force flag)
ForceUpdateOff == FALSE

\* the force argument of Git.UpdateRef
ForceUpdate == TRUE

\* Git.UpdateRef(sha, force): refused when not forced and not a fast forward
RemoteAcceptsUpdate(sha, force) == force \/ ref \in Ancestors(sha)

----------------------------------------------------------------------------
(* PushFilesToRepository *)

StepOrder == <<"GetRef", "GetTree", "CreateTree", "CreateCommit", "UpdateRef">>
StepIndex(step) == CHOOSE i \in DOMAIN StepOrder : StepOrder[i] = step
StepAfter(step) ==
    IF StepIndex(step) = Len(StepOrder) THEN "done" ELSE StepOrder[StepIndex(step) + 1]

\* (a variant that goes on after a failed call)
NextStepIgnoringErr(step, e) == StepAfter(step)

\* "if err != nil { return err }" after every call
NextStep(step, e) == IF e # "nil" THEN "done" ELSE StepAfter(step)

\* one entry per file, in an order of the map's iteration
NewEntries(fs, order) ==
    [i \in DOMAIN order |->
        [path |-> order[i], content |-> fs[order[i]], mode |-> FileMode]]

\* (a variant that puts the base tree's entries first)
TreeEntriesBaseFirst(newEntries, baseEntries) == baseEntries \o newEntries

\* treeEntries = append(treeEntries, baseTree.Entries...)
TreeEntries(newEntries, baseEntries) == newEntries \o baseEntries

\* Parents: []*github.Commit{{SHA: ref.Object.SHA}}
CommitParents(w) == <<loc[w].ref>>

CommitMessage(w) == w

NoLoc == [ref |-> 0, baseTree |-> <<>>, newTree |-> 0, newCommit |-> 0]

\* the call has been answered with e: log it, go on or return e
Answered(w, step, arg, res, e) ==
    /\ calls' = [calls EXCEPT ![w] = Append(@, [op |-> step, arg |-> arg, res |-> res, err |-> e])]
    /\ pc' = [pc EXCEPT ![w] = NextStep(step, e)]
    /\ err' = [err EXCEPT ![w] = IF NextStep(step, e) = "done" THEN e ELSE @]

GetRef(w) ==
    /\ pc[w] = "GetRef"
    /\ \E e \in Outcomes :
        /\ Answered(w, "GetRef", "refs/heads/branch", IF e = "nil" THEN ref ELSE 0, e)
        /\ loc' = [loc EXCEPT ![w].ref = IF e = "nil" THEN ref ELSE 0]
    /\ UNCHANGED <<ref, commits, trees, files, parseVars, delVars, ioVars>>

GetTree(w) ==
    /\ pc[w] = "GetTree"
    /\ \E e \in Outcomes :
        LET got == IF e = "nil" THEN RemoteGetTree(loc[w].ref) ELSE <<>>
        IN  /\ Answered(w, "GetTree", loc[w].ref, got, e)
            /\ loc' = [loc EXCEPT ![w].baseTree = got]
    /\ UNCHANGED <<ref, commits, trees, files, parseVars, delVars, ioVars>>

CreateTree(w) ==
    /\ pc[w] = "CreateTree"
    /\ \E e \in Outcomes, order \in IterationOrders(DOMAIN files[w]), firstWins \in BOOLEAN :
        LET treeEntries == TreeEntries(NewEntries(files[w], order), loc[w].baseTree)
            sha == Len(trees) + 1
        IN  /\ Answered(w, "CreateTree", [base |-> loc[w].ref, entries |-> treeEntries],
                        IF e = "nil" THEN sha ELSE 0, e)
            /\ IF e = "nil"
               THEN /\ trees' = Append(trees, [base |-> loc[w].ref, sent |-> treeEntries,
                                               entries |-> RemoteResolve(treeEntries, firstWins)])
                    /\ loc' = [loc EXCEPT ![w].newTree = sha]
               ELSE UNCHANGED <<trees, loc>>
    /\ UNCHANGED <<ref, commits, files, parseVars, delVars, ioVars>>

CreateCommit(w) ==
    /\ pc[w] = "CreateCommit"
    /\ \E e \in Outcomes :
        LET commit == [message |-> CommitMessage(w), tree |-> loc[w].newTree,
                       parents |-> CommitParents(w)]
            sha == Len(commits) + 1
        IN  /\ Answered(w, "CreateCommit", commit, IF e = "nil" THEN sha ELSE 0, e)
            /\ IF e = "nil"
               THEN /\ commits' = Append(commits, commit)
                    /\ loc' = [loc EXCEPT ![w].newCommit = sha]
               ELSE UNCHANGED <<commits, loc>>
    /\ UNCHANGED <<ref, trees, files, parseVars, delVars, ioVars>>

\* the UpdateRef call answered with e; prev is the SHA the ref held before
UpdateRefAnswer(w, e) ==
    /\ pc[w] = "UpdateRef"
    /\ e = "nil" => RemoteAcceptsUpdate(loc[w].newCommit, ForceUpdate)
    /\ e = NotFastForward => ~RemoteAcceptsUpdate(loc[w].newCommit, ForceUpdate)
    /\ Answered(w, "UpdateRef", [sha |-> loc[w].newCommit, force |-> ForceUpdate, prev |-> ref],
                IF e = "nil" THEN loc[w].newCommit ELSE 0, e)
    /\ ref' = IF e = "nil" THEN loc[w].newCommit ELSE ref
    /\ UNCHANGED <<commits, trees, files, loc, parseVars, delVars, ioVars>>

UpdateRef(w) == \E e \in Outcomes \cup {NotFastForward} : UpdateRefAnswer(w, e)

----------------------------------------------------------------------------
(* DeleteDirs *)

FolderNames == { <<"a">>, <<"b">> }

GitKeepName == <<".","g","i","t","k","e","e","p">>

\* fmt.Sprintf("%s/%s", folderPath, ".gitkeep")
GitKeepPath(folderPath) == folderPath \o <<"/">> \o GitKeepName

\* fmt.Sprintf("Delete folder %s", folderPath)
DeleteMessage(folderPath) == [msg |-> "Delete folder ", arg |-> folderPath]

DeleteBranch == "main"

FileNotFound == "404 Not Found"

\* Repositories.DeleteFile(path): nil only for a file that is there, the
\* not-found error only for one that is not, any other error in both cases
DeleteOutcomes(path) ==
    (IF path \in present THEN {"nil"} ELSE {FileNotFound})
        \cup {"403 Forbidden", "502 Bad Gateway"}

\* utils.IsFileNotFoundError
IsFileNotFoundError(e) == e = FileNotFound

\* (a variant that returns on every error)
AbortsLoopOnAnyError(e) == e # "nil"

\* (a variant that never returns from the loop)
AbortsLoopNever(e) == FALSE

\* if err != nil && !utils.IsFileNotFoundError(err) { return err }
AbortsLoop(e) == e # "nil" /\ ~IsFileNotFoundError(e)

\* one iteration of the range loop: the DeleteFile call and the check of its error
DeleteFile ==
    /\ delPc = "loop"
    /\ di <= Len(folderPaths)
    /\ LET folderPath == folderPaths[di]
           filePath == GitKeepPath(folderPath)
       IN  \E e \in DeleteOutcomes(filePath) :
              /\ delCalls' = Append(delCalls,
                                [path |-> filePath, message |-> DeleteMessage(folderPath),
                                 branch |-> DeleteBranch, err |-> e])
              /\ present' = IF e = "nil" THEN present \ {filePath} ELSE present
              /\ IF AbortsLoop(e)
                 THEN /\ delErr' = e
                      /\ delPc' = "done"
                      /\ UNCHANGED di
                 ELSE /\ di' = di + 1
                      /\ UNCHANGED <<delErr, delPc>>
    /\ UNCHANGED <<folderPaths, parseVars, pushVars, ioVars>>

\* the range loop is over: return nil
DeleteDirsReturn ==
    /\ delPc = "loop"
    /\ di > Len(folderPaths)
    /\ delPc' = "done"
    /\ delErr' = "nil"
    /\ UNCHANGED <<folderPaths, present, di, delCalls, parseVars, pushVars, ioVars>>

----------------------------------------------------------------------------
(* GetFile and GetRepositoryArchive *)

FilePaths == { <<"a">>, <<"d","/","b">> }
Bytes     == UNION { [1..n -> {"x"}] : n \in 0..MaxBytes }

StatusOK == 200
StatusCodes == {StatusOK, 204, 404, 500}

\* resp.Status for a status code
StatusLine(code) ==
    CASE code = 200 -> "200 OK"
      [] code = 204 -> "204 No Content"
      [] code = 404 -> "404 Not Found"
      [] code = 500 -> "500 Internal Server Error"

\* the errors of the client and of the transport
IoErrs     == {"404 Not Found", "connection reset"}
IoOutcomes == {"nil"} \cup IoErrs

Nil     == <<>>
Some(x) == <<x>>

NoBody == [state |-> "none", reads |-> 0]

\* a call that hands back a response body opens it; one that fails hands back none
Opened(e) == IF e = "nil" THEN [state |-> "open", reads |-> 0] ELSE NoBody

\* ioutil.ReadAll(b)
ReadAll(b) == [b EXCEPT !.reads = @ + 1]

\* (a variant that closes the body only when the operation succeeds)
DeferredCloseOnSuccess(b, e) == IF e = "nil" THEN [b EXCEPT !.state = "closed"] ELSE b

\* defer fileContent.Close() / defer resp.Body.Close(), run at a return with error e
DeferredClose(b, e) == [b EXCEPT !.state = "closed"]

\* (a variant that accepts every 2xx status)
ArchiveStatusErrAny2xx(r) ==
    IF r.StatusCode < 200 \/ r.StatusCode > 299
    THEN [msg |-> "failed to fetch archive: ", arg |-> r.Status]
    ELSE [msg |-> "nil", arg |-> ""]

\* fmt.Errorf("failed to fetch archive: %s", resp.Status) when the status is not 200
ArchiveStatusErr(r) ==
    IF r.StatusCode # StatusOK
    THEN [msg |-> "failed to fetch archive: ", arg |-> r.Status]
    ELSE [msg |-> "nil", arg |-> ""]

\* an error of the client, passed on as it is
Passed(e) == [msg |-> e, arg |-> ""]

IoCalled(op, e) == ioCalls' = Append(ioCalls, [op |-> op, err |-> e])

IoReturn(value, e) ==
    /\ ioRet' = <<[value |-> value, err |-> e]>>
    /\ ioPc' = "done"

\* Repositories.DownloadContents, and the return on its error
GetFileDownload ==
    /\ ioOp = "GetFile"
    /\ ioPc = "DownloadContents"
    /\ \E e \in IoOutcomes :
        /\ IoCalled("DownloadContents", e)
        /\ body' = Opened(e)
        /\ IF e # "nil"
           THEN IoReturn(Nil, Passed(e))
           ELSE ioPc' = "ReadAll" /\ UNCHANGED ioRet
    /\ UNCHANGED <<ioOp, ioArg, remote, resp, parseVars, pushVars, delVars>>

\* ioutil.ReadAll(fileContent), the return, and the deferred Close
GetFileRead ==
    /\ ioOp = "GetFile"
    /\ ioPc = "ReadAll"
    /\ \E e \in {"nil", "unexpected EOF"} :
        /\ IoCalled("ReadAll", e)
        /\ body' = DeferredClose(ReadAll(body), e)
        /\ IF e # "nil"
           THEN IoReturn(Nil, Passed(e))
           ELSE IoReturn(Some([Name |-> ioArg, Content |-> remote.content]), Passed("nil"))
    /\ UNCHANGED <<ioOp, ioArg, remote, resp, parseVars, pushVars, delVars>>

\* Repositories.GetArchiveLink, and the return on its error
ArchiveLink ==
    /\ ioOp = "GetRepositoryArchive"
    /\ ioPc = "GetArchiveLink"
    /\ \E e \in IoOutcomes :
        /\ IoCalled("GetArchiveLink", e)
        /\ IF e # "nil"
           THEN IoReturn(Nil, Passed(e))
           ELSE ioPc' = "http.Get" /\ UNCHANGED ioRet
    /\ UNCHANGED <<ioOp, ioArg, remote, body, resp, parseVars, pushVars, delVars>>

\* http.Get(archiveLink), and the return on its error
ArchiveGet ==
    /\ ioOp = "GetRepositoryArchive"
    /\ ioPc = "http.Get"
    /\ \E e \in {"nil", "connection reset"} :
        /\ IoCalled("http.Get", e)
        /\ body' = Opened(e)
        /\ IF e # "nil"
           THEN IoReturn(Nil, Passed(e)) /\ UNCHANGED resp
           ELSE /\ resp' = <<[StatusCode |-> remote.status, Status |-> StatusLine(remote.status)]>>
                /\ ioPc' = "ReadAll"
                /\ UNCHANGED ioRet
    /\ UNCHANGED <<ioOp, ioArg, remote, parseVars, pushVars, delVars>>

\* the status check, ioutil.ReadAll(resp.Body), the return, and the deferred Close
ArchiveRead ==
    /\ ioOp = "GetRepositoryArchive"
    /\ ioPc = "ReadAll"
    /\ LET statusErr == ArchiveStatusErr(resp[1])
       IN  IF statusErr.msg # "nil"
           THEN /\ body' = DeferredClose(body, statusErr.msg)
                /\ IoReturn(Nil, statusErr)
                /\ UNCHANGED ioCalls
           ELSE \E e \in {"nil", "unexpected EOF"} :
                   /\ IoCalled("ReadAll", e)
                   /\ body' = DeferredClose(ReadAll(body), e)
                   /\ IF e # "nil"
                      THEN IoReturn(Nil, Passed(e))
                      ELSE IoReturn(Some(remote.content), Passed("nil"))
    /\ UNCHANGED <<ioOp, ioArg, remote, resp, parseVars, pushVars, delVars>>

----------------------------------------------------------------------------
(* specifications: one per operation; the other operations stay idle *)

PushIdle ==
    /\ ref = InitialCommit
    /\ commits = <<[message |-> "init", tree |-> 1, parents |-> <<>>]>>
    /\ trees = <<InitialTree({})>>
    /\ files = [w \in Writers |-> <<>>]
    /\ pc = [w \in Writers |-> "done"]
    /\ loc = [w \in Writers |-> NoLoc]
    /\ err = [w \in Writers |-> "nil"]
    /\ calls = [w \in Writers |-> <<>>]

ParseIdle ==
    /\ url = <<>>
    /\ parsed = <<>>

DelIdle ==
    /\ folderPaths = <<>>
    /\ present = {}
    /\ di = 1
    /\ delPc = "done"
    /\ delErr = "nil"
    /\ delCalls = <<>>

IoIdle ==
    /\ ioOp = "none"
    /\ ioArg = <<>>
    /\ remote = [content |-> <<>>, status |-> StatusOK]
    /\ ioPc = "done"
    /\ body = NoBody
    /\ resp = <<>>
    /\ ioCalls = <<>>
    /\ ioRet = <<>>

InitParse ==
    /\ url \in Urls(MaxSegs)
    /\ parsed = <<>>
    /\ PushIdle
    /\ DelIdle
    /\ IoIdle

ParseUrlCall ==
    /\ parsed = <<>>
    /\ parsed' = <<ParseUrl(url)>>
    /\ UNCHANGED <<url, pushVars, delVars, ioVars>>

NextParse == ParseUrlCall

SpecParse == InitParse /\ [][NextParse]_vars

InitPush ==
    /\ ParseIdle
    /\ DelIdle
    /\ IoIdle
    /\ ref = InitialCommit
    /\ commits = <<[message |-> "init", tree |-> 1, parents |-> <<>>]>>
    /\ \E k \in 0..MaxFiles : trees = <<InitialTree(1..k)>>
    /\ \E sel \in [Writers -> SUBSET Paths] :
          files = [w \in Writers |-> [p \in sel[w] |-> w]]
    /\ pc = [w \in Writers |-> "GetRef"]
    /\ loc = [w \in Writers |-> NoLoc]
    /\ err = [w \in Writers |-> "nil"]
    /\ calls = [w \in Writers |-> <<>>]

NextPush ==
    \E w \in Writers :
        \/ GetRef(w)
        \/ GetTree(w)
        \/ CreateTree(w)
        \/ CreateCommit(w)
        \/ UpdateRef(w)

SpecPush == InitPush /\ [][NextPush]_vars

InitDel ==
    /\ ParseIdle
    /\ PushIdle
    /\ IoIdle
    /\ folderPaths \in UNION { [1..n -> FolderNames] : n \in 0..MaxFolders }
    /\ present \in SUBSET { GitKeepPath(f) : f \in FolderNames }
    /\ di = 1
    /\ delPc = "loop"
    /\ delErr = "nil"
    /\ delCalls = <<>>

NextDel == DeleteFile \/ DeleteDirsReturn

SpecDel == InitDel /\ [][NextDel]_vars

InitIo ==
    /\ ParseIdle
    /\ PushIdle
    /\ DelIdle
    /\ \/ ioOp = "GetFile" /\ ioPc = "DownloadContents" /\ ioArg \in FilePaths
       \/ ioOp = "GetRepositoryArchive" /\ ioPc = "GetArchiveLink" /\ ioArg = <<>>
    /\ remote \in [content : Bytes, status : StatusCodes]
    /\ body = NoBody
    /\ resp = <<>>
    /\ ioCalls = <<>>
    /\ ioRet = <<>>

NextIo ==
    \/ GetFileDownload
    \/ GetFileRead
    \/ ArchiveLink
    \/ ArchiveGet
    \/ ArchiveRead

SpecIo == InitIo /\ [][NextIo]_vars

----------------------------------------------------------------------------
(* PushFilesToRepository: claims *)

Succeeded(w) == pc[w] = "done" /\ err[w] = "nil" /\ Len(calls[w]) = Len(StepOrder)
Failed(w)    == pc[w] = "done" /\ err[w] # "nil"

\* the calls of w arrive in the order of the steps; a failed call is the last
\* one, ends the operation and its error is the one returned; after a failure
\* the branch is not at a commit of w, and it is at the initial commit as long
\* as no caller has succeeded
C1_FailureState ==
    /\ \A w \in Writers :
        /\ Len(calls[w]) <= Len(StepOrder)
        /\ \A i \in DOMAIN calls[w] :
            /\ calls[w][i].op = StepOrder[i]
            /\ calls[w][i].err # "nil" =>
                  /\ i = Len(calls[w])
                  /\ pc[w] = "done"
                  /\ err[w] = calls[w][i].err
        /\ Failed(w) =>
            /\ calls[w] # <<>>
            /\ calls[w][Len(calls[w])].err = err[w]
            /\ commits[ref].message # CommitMessage(w)
    /\ (\A w \in Writers : ~Succeeded(w)) => ref = InitialCommit

\* the ref moves only in a successful UpdateRef step, to that caller's commit
C1_OnlyUpdateRefMovesRef ==
    [][ref' # ref =>
          \E w \in Writers :
              /\ pc[w] = "UpdateRef"
              /\ Succeeded(w)'
              /\ ref' = loc[w].newCommit]_vars

\* C1: the branch ref is changed only by the final update-ref step; when any
\* of get-ref, get-tree, create-tree, create-commit, update-ref fails, the
\* operation returns that error, makes no further remote call, and leaves
\* the ref where it was.
C1_AtomicOnFailure == []C1_FailureState /\ C1_OnlyUpdateRefMovesRef

\* a push failed in its last step, after creating a tree and a commit, and
\* the branch is still at the initial commit
C1_Witness ==
    \E w \in Writers :
        /\ Failed(w)
        /\ Len(calls[w]) = Len(StepOrder)
        /\ Len(commits) > 1
        /\ Len(trees) > 1
        /\ ref = InitialCommit

FileEntries(w) ==
    { [path |-> p, content |-> files[w][p], mode |-> "100644"] : p \in DOMAIN files[w] }

\* C2: a successful push of N files on a branch at commit C1 with tree T1
\* creates a commit whose only parent is C1, the SHA read in step 1 and the
\* base of the new tree, and whose tree was created from N + |T1| entries:
\* an entry of mode 100644 per file, then all of T1's entries, duplicates kept.
C2_CommitShape ==
    \A w \in Writers :
        Succeeded(w) =>
            LET c1   == calls[w][1].res
                t1   == trees[commits[c1].tree].entries
                tree == calls[w][3].res
                new  == calls[w][4].res
                sent == trees[tree].sent
                n    == Cardinality(DOMAIN files[w])
            IN  /\ commits[new].parents = <<c1>>
                /\ commits[new].tree = tree
                /\ trees[tree].base = c1
                /\ calls[w][3].arg.entries = sent
                /\ Len(sent) = n + Len(t1)
                /\ { sent[i] : i \in 1..n } = FileEntries(w)
                /\ \A i \in 1..Len(t1) : sent[n + i] = t1[i]

\* a push of two files succeeded on a tree that held both paths already:
\* four entries were sent, each path twice
C2_Witness ==
    \E w \in Writers :
        /\ Succeeded(w)
        /\ Cardinality(DOMAIN files[w]) = 2
        /\ Len(trees[calls[w][3].res].sent) = 4
        /\ trees[calls[w][3].res].sent[1].path
               \in { trees[calls[w][3].res].sent[i].path : i \in 3..4 }

\* b moved the ref after a had read it and before a moved it; both succeeded
LostUpdate(a, b) ==
    /\ a # b
    /\ Succeeded(a)
    /\ Succeeded(b)
    /\ calls[a][5].arg.prev = calls[b][5].res
    /\ calls[a][1].res # calls[b][5].res

\* C3: when writer B updates the ref between writer A's read of it and A's
\* update, A's forced update is still accepted; both calls then return
\* success, the branch is at A's commit, whose parent is the old tip and
\* whose tree is based on the old tip, and B's commit is no ancestor of it.
C3_LostUpdate ==
    \A a, b \in Writers :
        /\ (/\ a # b
            /\ pc[a] = "UpdateRef"
            /\ Succeeded(b)
            /\ ref = calls[b][5].res
            /\ loc[a].ref # ref)
              => ENABLED UpdateRefAnswer(a, "nil")
        /\ LostUpdate(a, b) =>
              /\ ref = calls[a][4].res
              /\ commits[ref].parents = <<calls[a][1].res>>
              /\ trees[commits[ref].tree].base = calls[a][1].res
              /\ calls[a][1].res = calls[b][1].res
              /\ calls[b][5].res \notin Ancestors(ref)

\* the lost update has happened: B's file is in no entry of the branch's tree
C3_Witness ==
    \E a, b \in Writers :
        /\ LostUpdate(a, b)
        /\ DOMAIN files[b] # {}
        /\ \A i \in DOMAIN trees[commits[ref].tree].entries :
               trees[commits[ref].tree].entries[i].content # b

----------------------------------------------------------------------------
(* DeleteDirs: claims *)

DelDone == delPc = "done"
Tolerated(e) == e \in {"nil", FileNotFound}

\* C7: a folder whose .gitkeep delete fails with file-not-found counts as
\* done: the loop goes on, each later folder gets its own delete call, in
\* input order, and the call returns nil when no other error occurs.
C7_NotFoundIsSuccess ==
    /\ Len(delCalls) <= Len(folderPaths)
    /\ \A i \in DOMAIN delCalls :
        /\ delCalls[i].path = GitKeepPath(folderPaths[i])
        /\ delCalls[i].message = DeleteMessage(folderPaths[i])
        /\ (delCalls[i].err = FileNotFound /\ i < Len(folderPaths))
              => (delPc = "loop" \/ Len(delCalls) > i)
    /\ (DelDone /\ \A i \in DOMAIN delCalls : Tolerated(delCalls[i].err))
          => /\ delErr = "nil"
             /\ Len(delCalls) = Len(folderPaths)

\* a call returned nil after a not-found answer followed by a real deletion
C7_Witness ==
    /\ DelDone
    /\ delErr = "nil"
    /\ \E i, j \in DOMAIN delCalls :
          i < j /\ delCalls[i].err = FileNotFound /\ delCalls[j].err = "nil"

\* C8 as stated: a DeleteDirs call that returns an error has deleted none of
\* the sentinel files, and one that returns nil has processed all folders.
C8_AllOrNothing ==
    DelDone =>
        /\ delErr # "nil" => \A i \in DOMAIN delCalls : delCalls[i].err # "nil"
        /\ delErr = "nil" => Len(delCalls) = Len(folderPaths)

\* C8 amended: a DeleteDirs call stops at the first delete that fails with
\* an error other than file-not-found and returns that error; the folders
\* before it are processed (sentinel deleted or absent), those after it get
\* no delete call; a call that returns nil has processed all folders.
C8_StopsAtFirstError ==
    DelDone =>
        /\ \A i \in 1..(Len(delCalls) - 1) :
              /\ Tolerated(delCalls[i].err)
              /\ delCalls[i].path \notin present
        /\ delErr # "nil" =>
              /\ delCalls # <<>>
              /\ Len(delCalls) <= Len(folderPaths)
              /\ delCalls[Len(delCalls)].err = delErr
              /\ ~Tolerated(delErr)
        /\ delErr = "nil" =>
              /\ Len(delCalls) = Len(folderPaths)
              /\ \A i \in DOMAIN folderPaths :
                    /\ Tolerated(delCalls[i].err)
                    /\ GitKeepPath(folderPaths[i]) \notin present

\* a call returned an error after it had deleted an earlier folder's sentinel
\* and with a folder left untouched
C8_Witness ==
    /\ DelDone
    /\ delErr # "nil"
    /\ Len(delCalls) < Len(folderPaths)
    /\ \E i \in DOMAIN delCalls : delCalls[i].err = "nil"

----------------------------------------------------------------------------
(* GetFile and GetRepositoryArchive: claims *)

IoDone == ioPc = "done" /\ ioRet # <<>>
CallOk(op) == \E i \in DOMAIN ioCalls : ioCalls[i].op = op /\ ioCalls[i].err = "nil"

\* C9: when the GET on the archive link answers with a status other than 200,
\* GetRepositoryArchive returns an error holding the status text and no
\* bytes, and does not read the body; bytes are returned only when the link
\* was resolved, the GET succeeded and the status was 200.
C9_Non200IsError ==
    (ioOp = "GetRepositoryArchive" /\ IoDone) =>
        /\ (resp # <<>> /\ remote.status # 200) =>
              /\ ioRet[1].err = [msg |-> "failed to fetch archive: ",
                                 arg |-> StatusLine(remote.status)]
              /\ ioRet[1].value = Nil
              /\ body.reads = 0
              /\ ~\E i \in DOMAIN ioCalls : ioCalls[i].op = "ReadAll"
        /\ ioRet[1].value # Nil =>
              /\ CallOk("GetArchiveLink")
              /\ CallOk("http.Get")
              /\ resp # <<>>
              /\ resp[1].StatusCode = 200
              /\ ioRet[1].err.msg = "nil"
              /\ ioRet[1].value = Some(remote.content)

\* the archive link answered 404 with a body of bytes, and the call returned
\* the status error and no bytes
C9_Witness ==
    /\ ioOp = "GetRepositoryArchive"
    /\ IoDone
    /\ resp # <<>>
    /\ resp[1].StatusCode = 404
    /\ remote.content # <<>>
    /\ ioRet[1].value = Nil
    /\ ioRet[1].err.arg = "404 Not Found"

\* C10: every response body GetFile or GetRepositoryArchive has opened is
\* closed when the operation returns, on every exit path.
C10_BodyClosedOnReturn ==
    IoDone => body.state # "open"

\* a body was opened, the operation then returned an error (a failed read or
\* a status other than 200), and the body is closed
C10_Witness ==
    /\ IoDone
    /\ (CallOk("DownloadContents") \/ CallOk("http.Get"))
    /\ ioRet[1].err.msg # "nil"
    /\ ioRet[1].value = Nil
    /\ body.state = "closed"

----------------------------------------------------------------------------
(* the URL grammar, stated on the text itself *)

BeginsWith(s, p) == \A i \in 1..Len(p) : i <= Len(s) /\ s[i] = p[i]

\* s up to, not including, its last '?'; s itself when it has none
BeforeLastQuestionMark(s) ==
    IF \A i \in 1..Len(s) : s[i] # "?" THEN s
    ELSE LET q == CHOOSE i \in 1..Len(s) :
                      s[i] = "?" /\ \A j \in (i+1)..Len(s) : s[j] # "?"
         IN  [i \in 1..(q-1) |-> s[i]]

\* the positions of the '/' characters of s, and the k-th of them
SlashPositions(s) == { i \in 1..Len(s) : s[i] = "/" }
KthSlash(s, k) ==
    CHOOSE i \in SlashPositions(s) :
        Cardinality({ j \in SlashPositions(s) : j < i }) = k - 1

\* the k-th '/'-separated segment of s, for k <= number of slashes
Segment(s, k) ==
    LET from == IF k = 1 THEN 1 ELSE KthSlash(s, k - 1) + 1
    IN  SubSeq(s, from, KthSlash(s, k) - 1)

\* everything after the 4th '/'
PathPart(s) == SubSeq(s, KthSlash(s, 4) + 1, Len(s))

\* s is exactly owner/repo/blob/ref/path
IsBlobForm(s) ==
    /\ Cardinality(SlashPositions(s)) >= 4
    /\ Segment(s, 1) # <<>>
    /\ Segment(s, 2) # <<>>
    /\ Segment(s, 3) = <<"b","l","o","b">>
    /\ Segment(s, 4) # <<>>
    /\ PathPart(s) # <<>>

Rest    == SubSeq(url, Len(githubURLPrefix) + 1, Len(url))
Grammar == BeforeLastQuestionMark(Rest)
Returned == parsed # <<>>
HasLineFeed(s) == \E i \in 1..Len(s) : s[i] = "\n"

\* C4: a URL with the prefix whose remainder, cut at the last '?', is not
\* exactly owner/repo/blob/ref/path fails with URLParseFailure and returns
\* empty path, owner and repo.
C4_NonGrammarFails ==
    (Returned /\ BeginsWith(url, githubURLPrefix) /\ ~IsBlobForm(Grammar))
        => parsed[1] = ParseFail(ErrURLParseFailure)

\* C5 as stated: every URL prefix/owner/repo/blob/ref/path[?query] parses to
\* owner = 1st segment, repo = 2nd segment, path = all after the ref segment
\* up to the last '?'.
C5_GrammarParses ==
    (Returned /\ BeginsWith(url, githubURLPrefix) /\ IsBlobForm(Grammar))
        => /\ parsed[1].err = ErrNil
           /\ parsed[1].owner = Segment(Grammar, 1)
           /\ parsed[1].repoName = Segment(Grammar, 2)
           /\ parsed[1].filePid = PathPart(Grammar)

\* C5 amended: the same, for a path that holds no line feed.
C5_GrammarParsesNoLineFeed ==
    (/\ Returned
     /\ BeginsWith(url, githubURLPrefix)
     /\ IsBlobForm(Grammar)
     /\ ~HasLineFeed(PathPart(Grammar)))
        => /\ parsed[1].err = ErrNil
           /\ parsed[1].owner = Segment(Grammar, 1)
           /\ parsed[1].repoName = Segment(Grammar, 2)
           /\ parsed[1].filePid = PathPart(Grammar)

\* a URL a/a/blob/a/a/a?b has been parsed to path a/a, the query dropped
C5_Witness ==
    /\ Returned
    /\ url = githubURLPrefix \o
             <<"a","/","a","/","b","l","o","b","/","a","/","a","/","a","?","b">>
    /\ parsed[1] = [filePid |-> <<"a","/","a">>, owner |-> <<"a">>,
                    repoName |-> <<"a">>, err |-> ErrNil]

\* C6: a URL that does not begin with https://github.com/ fails with the
\* InvalidURLFormat error, which names the prefix and is not URLParseFailure.
C6_NoPrefixInvalidFormat ==
    (Returned /\ ~BeginsWith(url, githubURLPrefix))
        => /\ parsed[1] = ParseFail(ErrInvalidURLFormat)
           /\ parsed[1].err.arg = githubURLPrefix
           /\ parsed[1].err # ErrURLParseFailure

\* http://github.com/a/a/blob/a/a, well formed but for its prefix, was refused
C6_Witness ==
    /\ Returned
    /\ ~BeginsWith(url, githubURLPrefix)
    /\ IsBlobForm(SubSeq(url, Len(githubURLPrefix), Len(url)))
    /\ parsed[1].err = ErrInvalidURLFormat

====
